---- MODULE Spec2Model ----
(***************************************************************************)
(* The IM2 queue service (src/modules/queue/main.py): the jobs table, the  *)
(* job_history table, the pause flag and the Redis event channels, driven  *)
(* by the HTTP handlers create_job, update_job, retry_job, cancel_job,     *)
(* pause_queue and resume_queue.                                           *)
(*                                                                         *)
(* Every handler is an asyncio coroutine; it is cut at its awaits on the   *)
(* store and on Redis.  The store is PostgreSQL at READ COMMITTED: every   *)
(* statement reads the committed tables, an UPDATE of a row (or an INSERT  *)
(* of a primary key) waits for the uncommitted writer of that row, and a   *)
(* transaction's writes appear together at its commit.                     *)
(*                                                                         *)
(* pg_advisory_xact_lock is executed before conn.transaction() is entered  *)
(* (lines 389, 468, 556), i.e. in its own autocommit transaction, so the   *)
(* lock is released when that statement ends; it is held across no await   *)
(* of the handler and therefore has no step of its own here.               *)
(***************************************************************************)
EXTENDS Integers, Sequences, FiniteSets, TLC

VARIABLES
    pipeline_paused,  \* QueueService.pipeline_paused
    jobs,             \* table jobs: job_uuid -> committed row
    job_history,      \* table job_history: set of committed rows
    history_seq,      \* the SERIAL sequence behind job_history.id
    rowlock,          \* job_uuid -> handler holding the row (or key) lock
    job_events,       \* Redis channel "job_events", in publication order
    system_events,    \* Redis channel "system_events"
    clock,            \* number of datetime.now() readings taken
    req,              \* handler slot -> the request it is running
    reply,            \* the response sent last
    budget,           \* requests still to be accepted in this run
    demucs,           \* DemucsService: current_jobs and its running job tasks
    input_dir,        \* the files under INPUT_PATH: path -> version of its content
    watcher,          \* WatcherService: its file tables and its watch loop
    notifications     \* NotificationsService: its Redis keys and its tasks

vars == <<pipeline_paused, jobs, job_history, history_seq, rowlock,
          job_events, system_events, clock, req, reply, budget, demucs,
          input_dir, watcher, notifications>>

\* the services around the queue
services == <<demucs, input_dir, watcher, notifications>>

(***************************************************************************)
(* Bounds of the model.                                                    *)
(***************************************************************************)
\* requests accepted in one run
MaxRequests == 3
\* requests accepted in one run of SpecRetry
MaxRetryRequests == 4
\* requests accepted in one run of SpecRead
MaxReadRequests == 3
\* stages after submitted that a PUT may name, besides the terminal ones
NumStages == 1

Workers == {"w1", "w2"}
JobIds == {"j1", "j2"}
Keys == {"a", "b"}

NoWorker == "-"
NULL == "NULL"

(***************************************************************************)
(* JobStatus (lines 42-58).                                                *)
(***************************************************************************)
SUBMITTED == "submitted"
COMPLETE == "complete"
FAILED == "failed"
CANCELED == "canceled"

StageOrder ==
    <<"submitted", "categorizing", "categorized", "metadata_extracting",
      "metadata_extracted", "staging", "staged", "splitting", "split",
      "recombining", "recombined", "organizing", "complete">>

JobStatus == {StageOrder[i] : i \in 1..Len(StageOrder)} \cup {FAILED, CANCELED}

(***************************************************************************)
(* Request inputs.                                                         *)
(***************************************************************************)
Targets == {StageOrder[i] : i \in 2..(NumStages + 1)} \cup {COMPLETE, FAILED, CANCELED}

\* A bag maps every key to a value; 0 stands for "key absent".
EmptyBag == [k \in Keys |-> 0]
Patches == {EmptyBag, [a |-> 1, b |-> 0], [a |-> 0, b |-> 1], [a |-> 2, b |-> 0]}
Errors == {NULL, "boom"}

\* JobSubmission.timestamp: absent, or an instant before or after every
\* reading of the clock in the run.
NoStamp == -1
Stamps == {NoStamp, 0, 99}

\* Variant: the patch replaces the bag.
ReplaceMetadata(metadata, patch) == patch

(***************************************************************************)
(* dict.update (line 407): keys of the patch overwrite, other keys stay.   *)
(* A missing or empty patch leaves the bag as it is (line 406).            *)
(***************************************************************************)
MergeMetadata(metadata, patch) ==
    [k \in Keys |-> IF patch[k] # 0 THEN patch[k] ELSE metadata[k]]

\* JobSubmission.user_id (required) and JobSubmission.engine (optional)
Users == {"u1", "u2"}
Engines == {"demucs", "spleeter"}

\* A handler slot that runs nothing.  user_id, engine, limit and offset are
\* request parameters, query is the list of status values in the query string,
\* fetched is what the handler's queries have returned.
Idle ==
    [op |-> "none", pc |-> "done", job_uuid |-> "-", status |-> "-",
     patch |-> EmptyBag, metadata |-> EmptyBag, error |-> NULL, timestamp |-> 0,
     hist_id |-> 0, current_status |-> "-", saw_paused |-> FALSE,
     user_id |-> NULL, engine |-> NULL, query |-> << >>, limit |-> 0,
     offset |-> 0, fetched |-> << >>]

NoReply == [op |-> "none", job_uuid |-> "-", status |-> "-", code |-> 0,
            saw_paused |-> FALSE]

\* The HTTP response of the request r.
Response(r, code) ==
    [op |-> r.op, job_uuid |-> r.job_uuid, status |-> r.status, code |-> code,
     saw_paused |-> r.saw_paused]

CanBegin(w) == req[w].pc = "done" /\ budget > 0

\* The demucs worker before it was handed any job (DemucsService.__init__,
\* src/modules/demucs/main.py line 90); the worker itself is defined below.
TaskIds == {"t1", "t2"}

\* the request raised: no status code came back
Unreachable == 0

\* no request was sent yet
NoAnswer == -1

\* What the PUT of update_job_status can come back with: the status code of
\* the registry (422 is this registry's answer to the stage "processing",
\* which is no member of JobStatus; 503 its answer while paused), or no
\* answer at all.
Answers == {200, 404, 422, 503, Unreachable}

NoTask == [pc |-> "done", job_uuid |-> NULL, staged_file_path |-> FALSE,
           claim |-> NoAnswer, result |-> NULL, reported |-> NULL]

DemucsInit == [current_jobs |-> {}, tasks |-> [t \in TaskIds |-> NoTask]]

\* The watcher before its first scan (WatcherService.__init__,
\* src/modules/watcher/main.py lines 77-78), over an empty input directory;
\* the watcher itself is defined below.
Paths == {"p1", "p2"}

\* no file at the path
Absent == -1

InputDirInit == [p \in Paths |-> Absent]

WatcherInit ==
    [files_being_watched |-> << >>, processed_files |-> {}, pc |-> "scan",
     todo |-> << >>, path |-> NULL, submitted |-> [p \in Paths |-> 0],
     failures |-> 0, resets |-> 0]

\* The notifications service before its first event (NotificationsService,
\* src/modules/notifications/main.py lines 66-120, 167-174) over an empty
\* Redis; the service itself is defined below.
EventTasks == {"e1", "e2"}

\* events received in one run; each gets a NotificationRecord of its own id
MaxEvents == 3

\* MAX_RETRIES (line 84)
max_retries == 2

\* RATE_LIMIT_PER_USER (line 88)
rate_limit_per_user == 2

NotificationIds == 1..MaxEvents

\* redis GET of a key that does not exist
NoCount == -1

NoEvent == [pc |-> "done", critical |-> FALSE, id |-> 0]

\* no record under the key
NoRecord == [status |-> NULL, attempts |-> 0]

NotificationsInit ==
    [tasks |-> [e \in EventTasks |-> NoEvent],
     events |-> 0,
     rate_limit |-> NoCount,
     passed |-> 0,
     stored |-> [n \in NotificationIds |-> NULL],
     failed |-> [n \in NotificationIds |-> NoRecord],
     sends |-> [n \in NotificationIds |-> 0],
     retry |-> [pc |-> "scan", keys |-> {}, key |-> 0, attempts |-> 0]]


InitWith(n) ==
    /\ pipeline_paused = FALSE
    /\ jobs = << >>
    /\ job_history = {}
    /\ history_seq = 0
    /\ rowlock = [j \in JobIds |-> NoWorker]
    /\ job_events = << >>
    /\ system_events = << >>
    /\ clock = 0
    /\ req = [w \in Workers |-> Idle]
    /\ reply = NoReply
    /\ budget = n
    /\ demucs = DemucsInit
    /\ input_dir = InputDirInit
    /\ watcher = WatcherInit
    /\ notifications = NotificationsInit

Init == InitWith(MaxRequests)

(***************************************************************************)
(* Helpers over the committed tables.                                      *)
(***************************************************************************)
RowsOf(j) == {h \in job_history : h.job_uuid = j}

RECURSIVE SortById(_)
SortById(S) ==
    IF S = {} THEN << >>
    ELSE LET h == CHOOSE x \in S : \A y \in S : x.id <= y.id
         IN  <<h>> \o SortById(S \ {h})

\* The history of a job, by ascending job_history.id.
HistoryOf(j) == SortById(RowsOf(j))

JobEvent(name, j, s) == [event |-> name, job_uuid |-> j, status |-> s]

\* Leaving the transaction block: the row lock goes with it.
Release(w) ==
    rowlock' = [j \in JobIds |-> IF rowlock[j] = w THEN NoWorker ELSE rowlock[j]]

\* Variant: the write does not wait for the uncommitted writer of the row.
RowNeverAwaited(j) == TRUE

\* An UPDATE of the row (an INSERT of the key) waits for its uncommitted writer.
RowFree(j) == rowlock[j] = NoWorker

\* The handler of slot w answers and ends.
Answer(w, code) ==
    /\ req' = [req EXCEPT ![w] = Idle]
    /\ reply' = Response(req[w], code)

\* The handler of slot w goes on as r.
Goto(w, r) ==
    /\ req' = [req EXCEPT ![w] = r]
    /\ UNCHANGED reply

\* A request is accepted by slot w as r; rejected at once with 503 if paused.
Accept(w, r, rejected) ==
    /\ CanBegin(w)
    /\ budget' = budget - 1
    /\ IF rejected
       THEN /\ reply' = Response(r, 503)
            /\ UNCHANGED req
       ELSE /\ req' = [req EXCEPT ![w] = r]
            /\ UNCHANGED reply
    /\ UNCHANGED <<services, pipeline_paused, jobs, job_history, history_seq, rowlock,
                   job_events, system_events>>

\* The row written to job_history by the request r.
HistoryRow(r) ==
    [id |-> r.hist_id, job_uuid |-> r.job_uuid, status |-> r.status,
     timestamp |-> r.timestamp, metadata |-> r.metadata, error |-> r.error]

(***************************************************************************)
(* create_job (lines 218-294).                                             *)
(***************************************************************************)
\* Variant: create_job without its pause check.
CreateIgnoresPause == FALSE

\* line 221
CreatePaused == pipeline_paused

\* The pause check, then timestamp = job.timestamp or datetime.now() (line 231),
\* for a submission by user u for engine e.
CreateBeginAs(w, j, ts, u, e) ==
    /\ Accept(w, [Idle EXCEPT !.op = "create", !.pc = "c_select", !.job_uuid = j,
                              !.status = SUBMITTED, !.saw_paused = pipeline_paused,
                              !.timestamp = IF ts = NoStamp THEN clock + 1 ELSE ts,
                              !.user_id = u, !.engine = e],
              CreatePaused)
    /\ clock' = IF ~CreatePaused /\ ts = NoStamp THEN clock + 1 ELSE clock

\* A submission by user u1 that names no engine.
CreateBegin(w, j, ts) == CreateBeginAs(w, j, ts, "u1", NULL)

\* Variant: create_job without its check for an existing job.
CreateSelectUnchecked(w) ==
    /\ req[w].pc = "c_select"
    /\ Goto(w, [req[w] EXCEPT !.pc = "c_insert"])
    /\ UNCHANGED <<services, pipeline_paused, jobs, job_history, history_seq, rowlock,
                   job_events, system_events, clock, budget>>

\* SELECT * FROM jobs WHERE job_uuid = $1 (lines 238-244)
CreateSelect(w) ==
    /\ req[w].pc = "c_select"
    /\ IF req[w].job_uuid \in DOMAIN jobs
       THEN Answer(w, 409)
       ELSE Goto(w, [req[w] EXCEPT !.pc = "c_insert"])
    /\ UNCHANGED <<services, pipeline_paused, jobs, job_history, history_seq, rowlock,
                   job_events, system_events, clock, budget>>

\* INSERT INTO jobs, INSERT INTO job_history (lines 247-266).  The insert
\* waits for an uncommitted insert of the same key and fails on a committed one.
CreateInsert(w) ==
    /\ req[w].pc = "c_insert"
    /\ RowFree(req[w].job_uuid)
    /\ IF req[w].job_uuid \in DOMAIN jobs
       THEN /\ Answer(w, 500)
            /\ UNCHANGED <<rowlock, history_seq>>
       ELSE /\ rowlock' = [rowlock EXCEPT ![req[w].job_uuid] = w]
            /\ history_seq' = history_seq + 1
            /\ Goto(w, [req[w] EXCEPT !.pc = "c_publish", !.hist_id = history_seq + 1])
    /\ UNCHANGED <<services, pipeline_paused, jobs, job_history, job_events,
                   system_events, clock, budget>>

\* redis publish inside the transaction (lines 269-279); an exception of the
\* publish leaves the transaction block, which rolls back.
CreatePublish(w, ok) ==
    /\ req[w].pc = "c_publish"
    /\ IF ok
       THEN /\ job_events' = Append(job_events,
                                   JobEvent("job_created", req[w].job_uuid, SUBMITTED))
            /\ Goto(w, [req[w] EXCEPT !.pc = "c_commit"])
            /\ UNCHANGED rowlock
       ELSE /\ Answer(w, 500)
            /\ Release(w)
            /\ UNCHANGED job_events
    /\ UNCHANGED <<services, pipeline_paused, jobs, job_history, history_seq,
                   system_events, clock, budget>>

\* The row of INSERT INTO jobs (lines 247-257)
CreatedRow(r) ==
    [status |-> SUBMITTED, created_at |-> r.timestamp, updated_at |-> r.timestamp,
     error |-> NULL, metadata |-> EmptyBag, user_id |-> r.user_id,
     engine |-> r.engine]

CreateCommit(w) ==
    /\ req[w].pc = "c_commit"
    /\ jobs' = jobs @@ (req[w].job_uuid :> CreatedRow(req[w]))
    /\ job_history' = job_history \cup {HistoryRow(req[w])}
    /\ Release(w)
    /\ Answer(w, 200)
    /\ UNCHANGED <<services, pipeline_paused, history_seq, job_events, system_events,
                   clock, budget>>

(***************************************************************************)
(* update_job (lines 371-454).                                             *)
(***************************************************************************)
\* Variant: complete exempted from the pause check as well.
PausedRejectsNonTerminal(status) ==
    pipeline_paused /\ status \notin {COMPLETE, FAILED, CANCELED}

\* line 380
PausedRejects(status) == pipeline_paused /\ status \notin {FAILED, CANCELED}

UpdateBegin(w, j, s, patch, e) ==
    /\ Accept(w, [Idle EXCEPT !.op = "update", !.pc = "u_select", !.job_uuid = j,
                              !.status = s, !.patch = patch, !.error = e,
                              !.saw_paused = pipeline_paused],
              PausedRejects(s))
    /\ UNCHANGED clock

\* SELECT the row, take the timestamp, merge the metadata (lines 393-407)
UpdateSelect(w) ==
    /\ req[w].pc = "u_select"
    /\ IF req[w].job_uuid \notin DOMAIN jobs
       THEN /\ Answer(w, 404)
            /\ UNCHANGED clock
       ELSE /\ clock' = clock + 1
            /\ Goto(w, [req[w] EXCEPT
                          !.pc = "u_write",
                          !.timestamp = clock + 1,
                          !.current_status = jobs[req[w].job_uuid].status,
                          !.metadata = MergeMetadata(jobs[req[w].job_uuid].metadata,
                                                     req[w].patch)])
    /\ UNCHANGED <<services, pipeline_paused, jobs, job_history, history_seq, rowlock,
                   job_events, system_events, budget>>

\* UPDATE jobs ... (takes the row lock), INSERT INTO job_history (lines 410-428)
UpdateWrite(w) ==
    /\ req[w].pc = "u_write"
    /\ RowFree(req[w].job_uuid)
    /\ rowlock' = [rowlock EXCEPT ![req[w].job_uuid] = w]
    /\ history_seq' = history_seq + 1
    /\ Goto(w, [req[w] EXCEPT !.pc = "u_commit", !.hist_id = history_seq + 1])
    /\ UNCHANGED <<services, pipeline_paused, jobs, job_history, job_events,
                   system_events, clock, budget>>

\* The row as UPDATE jobs SET status, updated_at, metadata, error leaves it
UpdatedRow(row, r) ==
    [row EXCEPT !.status = r.status, !.updated_at = r.timestamp,
                !.metadata = r.metadata, !.error = r.error]

\* The transaction commits and the response is sent; the event is left to a
\* background task.
UpdateCommit(w) ==
    /\ req[w].pc = "u_commit"
    /\ jobs' = [jobs EXCEPT ![req[w].job_uuid] = UpdatedRow(@, req[w])]
    /\ job_history' = job_history \cup {HistoryRow(req[w])}
    /\ Release(w)
    /\ req' = [req EXCEPT ![w] = [req[w] EXCEPT !.pc = "u_publish"]]
    /\ reply' = Response(req[w], 200)
    /\ UNCHANGED <<services, pipeline_paused, history_seq, job_events, system_events,
                   clock, budget>>

\* The background task publish_job_event (lines 431-439, 682-702)
UpdatePublish(w, ok) ==
    /\ req[w].pc = "u_publish"
    /\ job_events' = IF ok
                     THEN Append(job_events,
                                 JobEvent("job_updated", req[w].job_uuid, req[w].status))
                     ELSE job_events
    /\ req' = [req EXCEPT ![w] = Idle]
    /\ UNCHANGED <<services, pipeline_paused, jobs, job_history, history_seq, rowlock,
                   system_events, clock, reply, budget>>

(***************************************************************************)
(* retry_job (lines 456-546).                                              *)
(***************************************************************************)
\* line 459
RetryPaused == pipeline_paused

RetryBegin(w, j) ==
    /\ Accept(w, [Idle EXCEPT !.op = "retry", !.pc = "r_select", !.job_uuid = j,
                              !.saw_paused = pipeline_paused],
              RetryPaused)
    /\ UNCHANGED clock

\* Variant: canceled jobs pass the check too.
RetryableOrCanceled(status) == status \in {FAILED, CANCELED}

\* line 481
Retryable(status) == status = FAILED

\* SELECT the row; only a failed job goes on (lines 472-482)
RetrySelect(w) ==
    /\ req[w].pc = "r_select"
    /\ IF req[w].job_uuid \notin DOMAIN jobs
       THEN Answer(w, 404)
       ELSE IF ~Retryable(jobs[req[w].job_uuid].status)
       THEN Answer(w, 400)
       ELSE Goto(w, [req[w] EXCEPT !.pc = "r_history",
                                   !.current_status = jobs[req[w].job_uuid].status])
    /\ UNCHANGED <<services, pipeline_paused, jobs, job_history, history_seq, rowlock,
                   job_events, system_events, clock, budget>>

\* SELECT status FROM job_history WHERE job_uuid = $1 AND status != 'failed'
\* ORDER BY timestamp DESC LIMIT 1 (lines 485-492): the rows this may return.
LastSuccess(j) ==
    LET rows == {h \in RowsOf(j) : h.status # FAILED}
    IN  {h \in rows : \A g \in rows : g.timestamp <= h.timestamp}

\* The history query, the default and the timestamp (lines 485-498)
RetryHistory(w) ==
    /\ req[w].pc = "r_history"
    /\ clock' = clock + 1
    /\ IF LastSuccess(req[w].job_uuid) = {}
       THEN Goto(w, [req[w] EXCEPT !.pc = "r_write", !.status = SUBMITTED,
                                   !.timestamp = clock + 1])
       ELSE \E h \in LastSuccess(req[w].job_uuid) :
               Goto(w, [req[w] EXCEPT !.pc = "r_write", !.status = h.status,
                                      !.timestamp = clock + 1])
    /\ UNCHANGED <<services, pipeline_paused, jobs, job_history, history_seq, rowlock,
                   job_events, system_events, budget>>

\* UPDATE jobs ... RETURNING * (takes the row lock), INSERT INTO job_history
\* with the returned metadata (lines 501-518)
RetryWrite(w) ==
    /\ req[w].pc = "r_write"
    /\ RowFree(req[w].job_uuid)
    /\ rowlock' = [rowlock EXCEPT ![req[w].job_uuid] = w]
    /\ history_seq' = history_seq + 1
    /\ Goto(w, [req[w] EXCEPT !.pc = "r_publish", !.hist_id = history_seq + 1,
                              !.metadata = jobs[req[w].job_uuid].metadata])
    /\ UNCHANGED <<services, pipeline_paused, jobs, job_history, job_events,
                   system_events, clock, budget>>

\* redis publish inside the transaction (lines 521-531)
RetryPublish(w, ok) ==
    /\ req[w].pc = "r_publish"
    /\ IF ok
       THEN /\ job_events' = Append(job_events,
                                   JobEvent("job_retried", req[w].job_uuid, req[w].status))
            /\ Goto(w, [req[w] EXCEPT !.pc = "r_commit"])
            /\ UNCHANGED rowlock
       ELSE /\ Answer(w, 500)
            /\ Release(w)
            /\ UNCHANGED job_events
    /\ UNCHANGED <<services, pipeline_paused, jobs, job_history, history_seq,
                   system_events, clock, budget>>

\* Variant: the UPDATE of retry_job without error = NULL.
RetriedRowKeepsError(row, r) ==
    [row EXCEPT !.status = r.status, !.updated_at = r.timestamp]

\* The row as UPDATE jobs SET status, updated_at, error = NULL leaves it
RetriedRow(row, r) ==
    [row EXCEPT !.status = r.status, !.updated_at = r.timestamp, !.error = NULL]

RetryCommit(w) ==
    /\ req[w].pc = "r_commit"
    /\ jobs' = [jobs EXCEPT ![req[w].job_uuid] = RetriedRow(@, req[w])]
    /\ job_history' = job_history \cup {HistoryRow(req[w])}
    /\ Release(w)
    /\ Answer(w, 200)
    /\ UNCHANGED <<services, pipeline_paused, history_seq, job_events, system_events,
                   clock, budget>>

(***************************************************************************)
(* cancel_job (lines 548-621).                                             *)
(***************************************************************************)
CancelBegin(w, j) ==
    /\ Accept(w, [Idle EXCEPT !.op = "cancel", !.pc = "x_select", !.job_uuid = j,
                              !.status = CANCELED, !.saw_paused = pipeline_paused],
              FALSE)
    /\ UNCHANGED clock

\* Variant: a failed job is refused as well.
CancelableWhileLive(status) == status \notin {COMPLETE, CANCELED, FAILED}

\* line 569
Cancelable(status) == status \notin {COMPLETE, CANCELED}

\* SELECT the row, refuse a completed or canceled job, take the timestamp
\* (lines 560-573)
CancelSelect(w) ==
    /\ req[w].pc = "x_select"
    /\ IF req[w].job_uuid \notin DOMAIN jobs
       THEN /\ Answer(w, 404)
            /\ UNCHANGED clock
       ELSE IF ~Cancelable(jobs[req[w].job_uuid].status)
       THEN /\ Answer(w, 400)
            /\ UNCHANGED clock
       ELSE /\ clock' = clock + 1
            /\ Goto(w, [req[w] EXCEPT !.pc = "x_write", !.timestamp = clock + 1,
                                      !.current_status = jobs[req[w].job_uuid].status])
    /\ UNCHANGED <<services, pipeline_paused, jobs, job_history, history_seq, rowlock,
                   job_events, system_events, budget>>

\* UPDATE jobs ... RETURNING *, INSERT INTO job_history (lines 576-593)
CancelWrite(w) ==
    /\ req[w].pc = "x_write"
    /\ RowFree(req[w].job_uuid)
    /\ rowlock' = [rowlock EXCEPT ![req[w].job_uuid] = w]
    /\ history_seq' = history_seq + 1
    /\ Goto(w, [req[w] EXCEPT !.pc = "x_publish", !.hist_id = history_seq + 1,
                              !.metadata = jobs[req[w].job_uuid].metadata])
    /\ UNCHANGED <<services, pipeline_paused, jobs, job_history, job_events,
                   system_events, clock, budget>>

\* redis publish inside the transaction (lines 596-606)
CancelPublish(w, ok) ==
    /\ req[w].pc = "x_publish"
    /\ IF ok
       THEN /\ job_events' = Append(job_events,
                                   JobEvent("job_canceled", req[w].job_uuid, CANCELED))
            /\ Goto(w, [req[w] EXCEPT !.pc = "x_commit"])
            /\ UNCHANGED rowlock
       ELSE /\ Answer(w, 500)
            /\ Release(w)
            /\ UNCHANGED job_events
    /\ UNCHANGED <<services, pipeline_paused, jobs, job_history, history_seq,
                   system_events, clock, budget>>

\* The row as UPDATE jobs SET status = 'canceled', updated_at leaves it
CanceledRow(row, r) ==
    [row EXCEPT !.status = CANCELED, !.updated_at = r.timestamp]

CancelCommit(w) ==
    /\ req[w].pc = "x_commit"
    /\ jobs' = [jobs EXCEPT ![req[w].job_uuid] = CanceledRow(@, req[w])]
    /\ job_history' = job_history \cup {HistoryRow(req[w])}
    /\ Release(w)
    /\ Answer(w, 200)
    /\ UNCHANGED <<services, pipeline_paused, history_seq, job_events, system_events,
                   clock, budget>>

(***************************************************************************)
(* get_job (lines 346-369).                                                *)
(***************************************************************************)
GetBegin(w, j) ==
    /\ Accept(w, [Idle EXCEPT !.op = "get", !.pc = "g_select", !.job_uuid = j,
                              !.saw_paused = pipeline_paused],
              FALSE)
    /\ UNCHANGED clock

\* Variant: get_job answers 200 whether or not it finds a row.
GetSelectAlwaysFound(w) ==
    /\ req[w].pc = "g_select"
    /\ Answer(w, 200)
    /\ UNCHANGED <<services, pipeline_paused, jobs, job_history, history_seq, rowlock,
                   job_events, system_events, clock, budget>>

\* SELECT the row; 404 if there is none, else the row is returned
GetSelect(w) ==
    /\ req[w].pc = "g_select"
    /\ req' = [req EXCEPT ![w] = Idle]
    /\ reply' = IF req[w].job_uuid \notin DOMAIN jobs
                THEN Response(req[w], 404)
                ELSE Response([req[w] EXCEPT !.status = jobs[req[w].job_uuid].status], 200)
    /\ UNCHANGED <<services, pipeline_paused, jobs, job_history, history_seq, rowlock,
                   job_events, system_events, clock, budget>>

(***************************************************************************)
(* list_jobs (lines 296-344).                                              *)
(***************************************************************************)
\* status: Optional[str] (line 299): of the status values in the query string
\* the handler is given one, the last; none if there is none.
QueryStatus(query) == IF query = << >> THEN NULL ELSE query[Len(query)]

ListBegin(w, u, query, limit, offset) ==
    /\ Accept(w, [Idle EXCEPT !.op = "list", !.pc = "l_fetch", !.user_id = u,
                              !.query = query, !.status = QueryStatus(query),
                              !.limit = limit, !.offset = offset,
                              !.saw_paused = pipeline_paused],
              FALSE)
    /\ UNCHANGED clock

\* The poll of a stage worker (demucs/main.py lines 139-147): GET /api/jobs
\* with status, engine and limit.  list_jobs has no parameter engine, so the
\* value travels with the request and takes no part in the query.
STAGED == "staged"
PollLimit == 5

PollBegin(w, e) ==
    /\ Accept(w, [Idle EXCEPT !.op = "list", !.pc = "l_fetch", !.engine = e,
                              !.query = <<STAGED>>, !.status = QueryStatus(<<STAGED>>),
                              !.limit = PollLimit, !.saw_paused = pipeline_paused],
              FALSE)
    /\ UNCHANGED clock

\* A row of jobs as a query returns it
RecordOf(j) == [job_uuid |-> j] @@ jobs[j]

\* Variant: the query without its filter on user_id.
MatchingAnyOwner(u, s) == {j \in DOMAIN jobs : s # NULL => jobs[j].status = s}

\* WHERE user_id = $1 AND status = $2, each only if given (lines 308-318)
Matching(u, s) ==
    {j \in DOMAIN jobs : /\ (u # NULL => jobs[j].user_id = u)
                         /\ (s # NULL => jobs[j].status = s)}

\* ORDER BY created_at DESC (line 321): the orders the store may return
NewestFirst(S) ==
    {q \in [1..Cardinality(S) -> S] :
        /\ \A i, k \in 1..Cardinality(S) : i # k => q[i] # q[k]
        /\ \A i, k \in 1..Cardinality(S) :
              i < k => jobs[q[i]].created_at >= jobs[q[k]].created_at}

\* LIMIT $n OFFSET $m (line 321)
Page(q, limit, offset) ==
    LET last == IF offset + limit < Len(q) THEN offset + limit ELSE Len(q)
    IN  [i \in 1..(IF last > offset THEN last - offset ELSE 0) |-> q[offset + i]]

\* conn.fetch(query, *params) (line 326): the record lists it may return
JobRecords(u, s, limit, offset) ==
    {[i \in DOMAIN Page(q, limit, offset) |-> RecordOf(Page(q, limit, offset)[i])] :
        q \in NewestFirst(Matching(u, s))}

ListFetch(w) ==
    /\ req[w].pc = "l_fetch"
    /\ \E r \in JobRecords(req[w].user_id, req[w].status, req[w].limit, req[w].offset) :
          Goto(w, [req[w] EXCEPT !.pc = "l_return", !.fetched = r])
    /\ UNCHANGED <<services, pipeline_paused, jobs, job_history, history_seq, rowlock,
                   job_events, system_events, clock, budget>>

\* The records are converted to models and returned (lines 329-344)
ListReturn(w) ==
    /\ req[w].pc = "l_return"
    /\ Answer(w, 200)
    /\ UNCHANGED <<services, pipeline_paused, jobs, job_history, history_seq, rowlock,
                   job_events, system_events, clock, budget>>

(***************************************************************************)
(* get_queue_stats (lines 623-650): one COUNT of the table, then one COUNT *)
(* per member of JobStatus, each a statement of its own.                   *)
(***************************************************************************)
\* for status in JobStatus (line 631): the members in definition order
StatusList == StageOrder \o <<FAILED, CANCELED>>

StatsBegin(w) ==
    /\ Accept(w, [Idle EXCEPT !.op = "stats", !.pc = "s_total",
                              !.saw_paused = pipeline_paused],
              FALSE)
    /\ UNCHANGED clock

\* SELECT COUNT FROM jobs (line 627)
StatsTotal(w) ==
    /\ req[w].pc = "s_total"
    /\ Goto(w, [req[w] EXCEPT !.pc = "s_count",
                              !.fetched = [total_jobs |-> Cardinality(DOMAIN jobs),
                                           jobs_by_status |-> << >>]])
    /\ UNCHANGED <<services, pipeline_paused, jobs, job_history, history_seq, rowlock,
                   job_events, system_events, clock, budget>>

\* SELECT COUNT FROM jobs WHERE status = $1 (lines 632-636), for the next
\* member of JobStatus
StatsCount(w) ==
    /\ req[w].pc = "s_count"
    /\ LET done == Len(req[w].fetched.jobs_by_status)
           count == Cardinality({j \in DOMAIN jobs : jobs[j].status = StatusList[done + 1]})
       IN  Goto(w, [req[w] EXCEPT
                      !.pc = IF done + 1 = Len(StatusList) THEN "s_return" ELSE "s_count",
                      !.fetched.jobs_by_status = Append(@, count)])
    /\ UNCHANGED <<services, pipeline_paused, jobs, job_history, history_seq, rowlock,
                   job_events, system_events, clock, budget>>

RECURSIVE SumOver(_, _)
SumOver(counts, S) ==
    IF S = {} THEN 0
    ELSE LET i == CHOOSE x \in S : TRUE
         IN  counts[i] + SumOver(counts, S \ {i})

\* Variant: only complete is left out of the active jobs.
ActiveJobsButComplete(counts) ==
    SumOver(counts, {i \in DOMAIN counts : StatusList[i] # COMPLETE})

\* active_jobs (lines 639-640)
ActiveJobs(counts) ==
    SumOver(counts, {i \in DOMAIN counts :
                        StatusList[i] \notin {COMPLETE, FAILED, CANCELED}})

\* jobs_by_status.get(status, 0) (lines 641-642)
CountOf(counts, status) ==
    SumOver(counts, {i \in DOMAIN counts : StatusList[i] = status})

\* The QueueStats returned (lines 644-650)
QueueStats(fetched) ==
    [total_jobs |-> fetched.total_jobs,
     active_jobs |-> ActiveJobs(fetched.jobs_by_status),
     completed_jobs |-> CountOf(fetched.jobs_by_status, COMPLETE),
     failed_jobs |-> CountOf(fetched.jobs_by_status, FAILED),
     jobs_by_status |-> fetched.jobs_by_status]

StatsReturn(w) ==
    /\ req[w].pc = "s_return"
    /\ Answer(w, 200)
    /\ UNCHANGED <<services, pipeline_paused, jobs, job_history, history_seq, rowlock,
                   job_events, system_events, clock, budget>>

(***************************************************************************)
(* pause_queue, resume_queue (lines 652-680): the flag is set before the   *)
(* publish is awaited, and stays set if the publish fails.                 *)
(***************************************************************************)
SetPaused(flag, name, ok) ==
    /\ budget > 0
    /\ budget' = budget - 1
    /\ pipeline_paused' = flag
    /\ system_events' = IF ok THEN Append(system_events, name) ELSE system_events
    /\ reply' = [NoReply EXCEPT !.op = name, !.code = IF ok THEN 200 ELSE 500,
                                !.saw_paused = pipeline_paused]
    /\ UNCHANGED <<services, jobs, job_history, history_seq, rowlock, job_events, clock,
                   req>>

pause_queue(ok) == SetPaused(TRUE, "pipeline_paused", ok)

\* Variant: resume_queue leaves the flag on.
ResumeStaysPaused(ok) == SetPaused(TRUE, "pipeline_resumed", ok)

resume_queue(ok) == SetPaused(FALSE, "pipeline_resumed", ok)

(***************************************************************************)
(* The service: any handler may take its next step.  W are the handler     *)
(* slots in use; J, T, P, E, S and OK are the job ids, target stages, bag  *)
(* patches, error strings, submission timestamps and publish outcomes that *)
(* requests are drawn from.                                                *)
(***************************************************************************)
Serve(W, J, T, P, E, S, OK) ==
    \/ \E w \in W, j \in J, ts \in S : CreateBegin(w, j, ts)
    \/ \E w \in W : CreateSelect(w)
    \/ \E w \in W : CreateInsert(w)
    \/ \E w \in W, ok \in OK : CreatePublish(w, ok)
    \/ \E w \in W : CreateCommit(w)
    \/ \E w \in W, j \in J, s \in T, p \in P, e \in E : UpdateBegin(w, j, s, p, e)
    \/ \E w \in W : UpdateSelect(w)
    \/ \E w \in W : UpdateWrite(w)
    \/ \E w \in W : UpdateCommit(w)
    \/ \E w \in W, ok \in OK : UpdatePublish(w, ok)
    \/ \E w \in W, j \in J : RetryBegin(w, j)
    \/ \E w \in W : RetrySelect(w)
    \/ \E w \in W : RetryHistory(w)
    \/ \E w \in W : RetryWrite(w)
    \/ \E w \in W, ok \in OK : RetryPublish(w, ok)
    \/ \E w \in W : RetryCommit(w)
    \/ \E w \in W, j \in J : CancelBegin(w, j)
    \/ \E w \in W : CancelSelect(w)
    \/ \E w \in W : CancelWrite(w)
    \/ \E w \in W, ok \in OK : CancelPublish(w, ok)
    \/ \E w \in W : CancelCommit(w)
    \/ \E ok \in OK : pause_queue(ok)
    \/ \E ok \in OK : resume_queue(ok)

Next == Serve(Workers, JobIds, Targets, {EmptyBag}, {NULL}, {NoStamp}, BOOLEAN)

Spec == Init /\ [][Next]_vars

(***************************************************************************)
(* SpecRetry: one job, requests handled one after the other, submissions   *)
(* with and without a timestamp of their own.                              *)
(***************************************************************************)
InitRetry == InitWith(MaxRetryRequests)

NextRetry == Serve({"w1"}, {"j1"}, Targets, {EmptyBag}, {NULL}, Stamps, {TRUE})

SpecRetry == InitRetry /\ [][NextRetry]_vars

(***************************************************************************)
(* SpecRead: requests handled one after the other, among them submissions  *)
(* by either user for either engine and the reads get_job, list_jobs and   *)
(* get_queue_stats.                                                        *)
(***************************************************************************)
Queries == {<< >>, <<SUBMITTED>>, <<FAILED>>, <<SUBMITTED, FAILED>>}

Limits == {1, 2}

Offsets == {0, 1}

Reads(W, J) ==
    \/ \E w \in W, j \in J : GetBegin(w, j)
    \/ \E w \in W : GetSelect(w)
    \/ \E w \in W, u \in Users \cup {NULL}, q \in Queries, n \in Limits, m \in Offsets :
          ListBegin(w, u, q, n, m)
    \/ \E w \in W, e \in Engines : PollBegin(w, e)
    \/ \E w \in W : ListFetch(w)
    \/ \E w \in W : ListReturn(w)
    \/ \E w \in W : StatsBegin(w)
    \/ \E w \in W : StatsTotal(w)
    \/ \E w \in W : StatsCount(w)
    \/ \E w \in W : StatsReturn(w)

InitRead == InitWith(MaxReadRequests)

NextRead ==
    \/ Serve({"w1"}, JobIds, {STAGED, COMPLETE, FAILED}, {EmptyBag}, {NULL}, {NoStamp}, {TRUE})
    \/ \E j \in JobIds, u \in Users, e \in Engines : CreateBeginAs("w1", j, NoStamp, u, e)
    \/ Reads({"w1"}, JobIds)

SpecRead == InitRead /\ [][NextRead]_vars

(***************************************************************************)
(* SpecError: one job, requests handled one after the other, transitions   *)
(* with and without an error string.                                       *)
(***************************************************************************)
NextError == Serve({"w1"}, {"j1"}, Targets, {EmptyBag}, Errors, {NoStamp}, {TRUE})

SpecError == InitRetry /\ [][NextError]_vars

(***************************************************************************)
(* SpecFold: one job, requests handled one after the other, transitions    *)
(* with every bag patch.                                                   *)
(***************************************************************************)
NextFold == Serve({"w1"}, {"j1"}, Targets, Patches, {NULL}, {NoStamp}, {TRUE})

SpecFold == InitRetry /\ [][NextFold]_vars

(***************************************************************************)
(* SpecBag: requests carry bag patches and error strings.  The run starts  *)
(* from the store as create_job leaves it after one submission of j2.      *)
(***************************************************************************)
InitBag ==
    LET r == [Idle EXCEPT !.op = "create", !.job_uuid = "j2", !.status = SUBMITTED,
                          !.timestamp = 1, !.hist_id = 1, !.user_id = "u1"]
    IN  /\ pipeline_paused = FALSE
        /\ jobs = ("j2" :> CreatedRow(r))
        /\ job_history = {HistoryRow(r)}
        /\ history_seq = 1
        /\ rowlock = [j \in JobIds |-> NoWorker]
        /\ job_events = <<JobEvent("job_created", "j2", SUBMITTED)>>
        /\ system_events = << >>
        /\ clock = 1
        /\ req = [w \in Workers |-> Idle]
        /\ reply = Response(r, 200)
        /\ budget = MaxRequests
        /\ demucs = DemucsInit
        /\ input_dir = InputDirInit
        /\ watcher = WatcherInit
        /\ notifications = NotificationsInit

NextBag ==
    Serve(Workers, JobIds, {FAILED}, {EmptyBag, [a |-> 1, b |-> 0]}, {"boom"}, {NoStamp}, {TRUE})

SpecBag == InitBag /\ [][NextBag]_vars

(***************************************************************************)
(* SpecPatch: as SpecBag, with transitions that write one of two different *)
(* keys of the bag.                                                        *)
(***************************************************************************)
NextPatch ==
    Serve(Workers, JobIds, {FAILED}, {[a |-> 1, b |-> 0], [a |-> 0, b |-> 1]}, {NULL},
          {NoStamp}, {TRUE})

SpecPatch == InitBag /\ [][NextPatch]_vars

(***************************************************************************)
(* SpecStats: get_queue_stats in one handler slot while the other slot     *)
(* serves creates, transitions, retries and cancels.                       *)
(***************************************************************************)
NextStats ==
    \/ Serve({"w2"}, JobIds, {FAILED}, {EmptyBag}, {NULL}, {NoStamp}, {TRUE})
    \/ StatsBegin("w1")
    \/ StatsTotal("w1")
    \/ StatsCount("w1")
    \/ StatsReturn("w1")

SpecStats == InitRetry /\ [][NextStats]_vars

(***************************************************************************)
(* The demucs stage worker (src/modules/demucs/main.py).  poll_queue and   *)
(* process_job start one process_queued_job task per job they are handed;  *)
(* the task is cut at its awaits: the status update that announces the     *)
(* job as being processed, the separation, and the closing status update.  *)
(* The registry's answer to the first update is an input of the task: the  *)
(* worker talks to whatever serves QUEUE_SERVICE_URL.                      *)
(***************************************************************************)
QueueUnchanged ==
    UNCHANGED <<pipeline_paused, jobs, job_history, history_seq, rowlock,
                job_events, system_events, clock, req, reply, budget>>

\* poll_queue lines 155-164, process_job lines 249-254: a job that is not in
\* current_jobs gets a task of its own; the task has not run yet.
create_task(t, j, path) ==
    /\ demucs.tasks[t].pc = "done"
    /\ j \notin demucs.current_jobs
    /\ demucs' = [demucs EXCEPT !.tasks[t] =
                     [NoTask EXCEPT !.pc = "spawned", !.job_uuid = j,
                                    !.staged_file_path = path]]
    /\ QueueUnchanged
    /\ UNCHANGED <<input_dir, watcher, notifications>>

\* process_queued_job lines 174-182: the job is entered in current_jobs and
\* the update to "processing" is sent.
process_queued_job(t) ==
    /\ demucs.tasks[t].pc = "spawned"
    /\ demucs' = [demucs EXCEPT
                     !.current_jobs = @ \cup {demucs.tasks[t].job_uuid},
                     !.tasks[t].pc = "claim",
                     !.tasks[t].reported = "processing"]
    /\ QueueUnchanged
    /\ UNCHANGED <<input_dir, watcher, notifications>>

\* process_queued_job lines 182-203 with update_job_status lines 435-441:
\* a status other than 200 and an exception of the request are logged and
\* update_job_status returns; the task goes on.  Without a staged file path
\* it raises and reports the failure, otherwise it makes the output
\* directory and starts the separation.
AfterClaim(task, answer) ==
    IF task.staged_file_path THEN "separate" ELSE "report_failed"

update_job_status(t, answer) ==
    /\ demucs.tasks[t].pc = "claim"
    /\ demucs' = [demucs EXCEPT
                     !.tasks[t].claim = answer,
                     !.tasks[t].pc = AfterClaim(demucs.tasks[t], answer),
                     !.tasks[t].reported =
                         IF AfterClaim(demucs.tasks[t], answer) = "report_failed"
                         THEN "failed" ELSE @]
    /\ QueueUnchanged
    /\ UNCHANGED <<input_dir, watcher, notifications>>

\* separate_audio lines 316-415: the demucs process ran; a failure is
\* caught and returned as a result that carries the error, so the task
\* reports "completed" either way (lines 206-214).
SeparationResult(ok) == IF ok THEN "stems" ELSE "error"

separate_audio(t, ok) ==
    /\ demucs.tasks[t].pc = "separate"
    /\ demucs' = [demucs EXCEPT !.tasks[t].result = SeparationResult(ok),
                                !.tasks[t].pc = "report_completed",
                                !.tasks[t].reported = "completed"]
    /\ QueueUnchanged
    /\ UNCHANGED <<input_dir, watcher, notifications>>

\* process_queued_job lines 206-231: the closing update was sent and its
\* outcome ignored; finally the job leaves current_jobs.
TaskEnd(t) ==
    /\ demucs.tasks[t].pc \in {"report_completed", "report_failed"}
    /\ demucs' = [demucs EXCEPT
                     !.current_jobs = @ \ {demucs.tasks[t].job_uuid},
                     !.tasks[t].pc = "done"]
    /\ QueueUnchanged
    /\ UNCHANGED <<input_dir, watcher, notifications>>

NextDemucs ==
    \/ \E t \in TaskIds, j \in JobIds, path \in BOOLEAN : create_task(t, j, path)
    \/ \E t \in TaskIds : process_queued_job(t)
    \/ \E t \in TaskIds, answer \in Answers : update_job_status(t, answer)
    \/ \E t \in TaskIds, ok \in BOOLEAN : separate_audio(t, ok)
    \/ \E t \in TaskIds : TaskEnd(t)

SpecDemucs == Init /\ [][NextDemucs]_vars

(***************************************************************************)
(* The watcher (src/modules/watcher/main.py).  watch_loop is the only task *)
(* that touches the file tables besides the reset_watched_files handler;   *)
(* it is cut where the file system is read and at its awaits (the POST of  *)
(* submit_file_to_queue and the sleep), and the handler runs at an await.  *)
(* A file's size, modification time and hash are one value here, the       *)
(* version of its content.  The watchdog callbacks (lines 307-326) call    *)
(* asyncio.create_task on the observer's thread, where no event loop runs: *)
(* the call raises and check_file_stability is not run by them.  Files are *)
(* written and rewritten, not removed.                                     *)
(***************************************************************************)
\* STABILITY_CHECKS (line 72)
stability_checks == 2

\* times a file is rewritten after it appeared
MaxVersion == 1

\* submissions that the queue refuses in one run
MaxFailures == 2

\* calls of reset_watched_files in one run
MaxResets == 1

OnlyWatcher ==
    /\ QueueUnchanged
    /\ UNCHANGED <<demucs, notifications>>

\* Another process writes the file at path p.
FileWritten(p) ==
    /\ input_dir[p] < MaxVersion
    /\ input_dir' = [input_dir EXCEPT ![p] = @ + 1]
    /\ UNCHANGED watcher
    /\ OnlyWatcher

\* A table of file states without its key p (dict.pop)
Pop(table, p) ==
    IF DOMAIN table \ {p} = {} THEN << >>
    ELSE [q \in DOMAIN table \ {p} |-> table[q]]

\* FileState of a file seen for the first time (lines 170-178)
FileState(v) == [version |-> v, stability_count |-> 0, is_stable |-> FALSE]

\* Variant: marked stable one check early.
StableOneEarly(count) == count + 1 >= stability_checks

\* line 158
Stable(count) == count >= stability_checks

\* check_file_stability on a watched file whose content is now v
\* (lines 144-167)
Checked(state, v) ==
    IF state.version = v
    THEN [state EXCEPT !.stability_count = @ + 1,
                       !.is_stable = @ \/ Stable(state.stability_count + 1)]
    ELSE [version |-> v, stability_count |-> 0, is_stable |-> FALSE]

\* check_file_stability(path) for every path of S (lines 109-183): the table
\* afterwards
check_file_stability(table, S) ==
    LET seen == {p \in S : input_dir[p] # Absent}
        keys == DOMAIN table \cup seen
    IN  IF keys = {} THEN << >>
        ELSE [p \in keys |->
                 IF p \notin seen THEN table[p]
                 ELSE IF p \in DOMAIN table THEN Checked(table[p], input_dir[p])
                 ELSE FileState(input_dir[p])]

\* scan_input_directory (lines 236-243)
scan_input_directory ==
    /\ watcher.pc = "scan"
    /\ watcher' = [watcher EXCEPT
           !.files_being_watched =
               check_file_stability(@, {p \in Paths :
                                           /\ input_dir[p] # Absent
                                           /\ p \notin DOMAIN watcher.files_being_watched
                                           /\ p \notin watcher.processed_files}),
           !.pc = "check"]
    /\ UNCHANGED input_dir
    /\ OnlyWatcher

\* watch_loop lines 253-257 and process_stable_files line 227: every watched
\* file is checked, then the items of the table are listed.
CheckWatched ==
    /\ watcher.pc = "check"
    /\ LET table == check_file_stability(watcher.files_being_watched,
                                         DOMAIN watcher.files_being_watched)
       IN  watcher' = [watcher EXCEPT !.files_being_watched = table,
                                      !.todo = table,
                                      !.pc = "process"]
    /\ UNCHANGED input_dir
    /\ OnlyWatcher

\* Variant: every listed file is due, stable or not.
DueWhateverState(state, path) == path \notin watcher.processed_files

\* line 228
Due(state, path) == state.is_stable /\ path \notin watcher.processed_files

\* process_stable_files (lines 227-230): the next listed file that is due is
\* submitted; the POST of submit_file_to_queue is sent (lines 209-212).
process_stable_files ==
    /\ watcher.pc = "process"
    /\ LET due == {p \in DOMAIN watcher.todo : Due(watcher.todo[p], p)}
       IN  \/ /\ due = {}
              /\ watcher' = [watcher EXCEPT !.todo = << >>, !.pc = "sleep"]
           \/ \E p \in due :
                 watcher' = [watcher EXCEPT !.path = p, !.pc = "submit"]
    /\ UNCHANGED input_dir
    /\ OnlyWatcher

\* Variant: the path is not remembered.
ProcessedNever(processed, path, ok) == processed

\* Variant: the path is remembered whatever the answer.
ProcessedAnyway(processed, path, ok) == processed \cup {path}

\* lines 213-216: processed_files.add(path) on a 200
Processed(processed, path, ok) ==
    IF ok THEN processed \cup {path} ELSE processed

\* submit_file_to_queue lines 213-223 and process_stable_files lines 231-234:
\* the answer of the queue; on a 200 the path is remembered and leaves the
\* watched files.
SubmitAnswered(ok) ==
    /\ watcher.pc = "submit"
    /\ ~ok => watcher.failures < MaxFailures
    /\ watcher' = [watcher EXCEPT
           !.processed_files = Processed(@, watcher.path, ok),
           !.files_being_watched = IF ok THEN Pop(@, watcher.path) ELSE @,
           !.submitted[watcher.path] = IF ok THEN @ + 1 ELSE @,
           !.failures = IF ok THEN @ ELSE @ + 1,
           !.todo = Pop(@, watcher.path),
           !.path = NULL,
           !.pc = "process"]
    /\ UNCHANGED input_dir
    /\ OnlyWatcher

\* asyncio.sleep(stability_interval) is over (line 260)
WatchSleep ==
    /\ watcher.pc = "sleep"
    /\ watcher' = [watcher EXCEPT !.pc = "scan"]
    /\ UNCHANGED input_dir
    /\ OnlyWatcher

\* reset_watched_files (lines 103-107), run while watch_loop is at an await
reset_watched_files ==
    /\ watcher.pc \in {"submit", "sleep"}
    /\ watcher.resets < MaxResets
    /\ watcher' = [watcher EXCEPT !.files_being_watched = << >>,
                                  !.processed_files = {},
                                  !.submitted = [p \in Paths |-> 0],
                                  !.resets = @ + 1]
    /\ UNCHANGED input_dir
    /\ OnlyWatcher

watch_loop ==
    \/ scan_input_directory
    \/ CheckWatched
    \/ process_stable_files
    \/ \E ok \in BOOLEAN : SubmitAnswered(ok)
    \/ WatchSleep

NextWatcher ==
    \/ \E p \in Paths : FileWritten(p)
    \/ scan_input_directory
    \/ CheckWatched
    \/ process_stable_files
    \/ \E ok \in BOOLEAN : SubmitAnswered(ok)
    \/ WatchSleep
    \/ reset_watched_files

SpecWatcher == Init /\ [][NextWatcher]_vars

\* The watch loop keeps running (lines 247-263: every exception is caught
\* inside the loop).
SpecWatcherFair == SpecWatcher /\ WF_vars(watch_loop)

(***************************************************************************)
(* The notifications service (src/modules/notifications/main.py), for the  *)
(* events of one user.  process_event runs as one task per event (the      *)
(* background tasks of receive_event, line 260); retry_failed_notifications*)
(* is one task.  Both are cut at their awaits on Redis and on the          *)
(* channels.  Redis holds the rate-limit counter "rate_limit:<user>", the  *)
(* record "notifications:<id>" (stored) and the record                     *)
(* "notifications:failed:<id>" (failed), of which the status and the       *)
(* attempts are kept.  The clock is not modelled: whether a failed record  *)
(* is old enough for a retry (lines 231-232) is left open, and no key      *)
(* expires.                                                                *)
(***************************************************************************)
OnlyNotifications ==
    /\ QueueUnchanged
    /\ UNCHANGED <<demucs, input_dir, watcher>>

\* receive_event and process_event lines 304-343: an event of the user is
\* taken on and the preferences are read; the default preferences let
\* every event type of the model through.
process_event(e, critical) ==
    /\ notifications.tasks[e].pc = "done"
    /\ notifications.events < MaxEvents
    /\ notifications' = [notifications EXCEPT
           !.events = @ + 1,
           !.tasks[e] = [pc |-> "rate_get", critical |-> critical, id |-> 0]]
    /\ OnlyNotifications

\* What process_event does with the answer of is_rate_limited (lines
\* 345-351): a limited event goes on only if it is critical.
AfterRateLimit(task, limited) ==
    IF limited /\ ~task.critical THEN "done" ELSE "store"

\* is_rate_limited line 386: GET of the counter, and what follows from it
\* (lines 388, 397-399)
RateLimitGet(e) ==
    /\ notifications.tasks[e].pc = "rate_get"
    /\ LET count == notifications.rate_limit
       IN  notifications' = [notifications EXCEPT !.tasks[e].pc =
               IF count = NoCount THEN "rate_set"
               ELSE IF count >= rate_limit_per_user
                    THEN AfterRateLimit(notifications.tasks[e], TRUE)
                    ELSE "rate_incr"]
    /\ OnlyNotifications

\* The event was let through by is_rate_limited (it returned False).
Passes(e) ==
    [notifications EXCEPT
        !.passed = IF notifications.tasks[e].critical THEN @ ELSE @ + 1,
        !.tasks[e].pc = AfterRateLimit(notifications.tasks[e], FALSE)]

\* is_rate_limited lines 390-395: SET of the counter to 1
RateLimitSet(e) ==
    /\ notifications.tasks[e].pc = "rate_set"
    /\ notifications' = [Passes(e) EXCEPT !.rate_limit = 1]
    /\ OnlyNotifications

\* is_rate_limited lines 402-403: INCR of the counter
RateLimitIncr(e) ==
    /\ notifications.tasks[e].pc = "rate_incr"
    /\ notifications' = [Passes(e) EXCEPT
           !.rate_limit = IF @ = NoCount THEN 1 ELSE @ + 1]
    /\ OnlyNotifications

\* process_event lines 354-378: the record is created and stored as
\* pending, and send_notification is called.
StoreNotification(e) ==
    /\ notifications.tasks[e].pc = "store"
    /\ LET n == CHOOSE i \in NotificationIds :
                   /\ notifications.stored[i] = NULL
                   /\ \A k \in NotificationIds : notifications.stored[k] = NULL => i <= k
       IN  notifications' = [notifications EXCEPT
               !.stored[n] = "pending",
               !.sends[n] = @ + 1,
               !.tasks[e].id = n,
               !.tasks[e].pc = "send"]
    /\ OnlyNotifications

\* send_notification lines 433-459 for the record n with the given attempts:
\* sent on every channel, it is stored as sent under its own key; otherwise
\* it is stored as failed under the key of the failed records.
Sent(n, attempts, ok) ==
    IF ok
    THEN [notifications EXCEPT !.stored[n] = "sent"]
    ELSE [notifications EXCEPT !.failed[n] = [status |-> "failed", attempts |-> attempts]]

\* send_notification called by process_event (line 378) is over
SendDone(e, ok) ==
    /\ notifications.tasks[e].pc = "send"
    /\ notifications' = [Sent(notifications.tasks[e].id, 0, ok) EXCEPT !.tasks[e] = NoEvent]
    /\ OnlyNotifications

\* retry_failed_notifications lines 215-223: SCAN of the failed records
RetryScan ==
    /\ notifications.retry.pc = "scan"
    /\ notifications' = [notifications EXCEPT
           !.retry.keys = {n \in NotificationIds : notifications.failed[n] # NoRecord},
           !.retry.pc = "get"]
    /\ OnlyNotifications

\* Variant: one retry more.
MayRetryOnceMore(attempts) == attempts <= max_retries

\* line 235
MayRetry(attempts) == attempts < max_retries

\* lines 225-240: GET of the next key; a record that is due and may be
\* retried is marked and its attempts are incremented.
RetryGet(due) ==
    /\ notifications.retry.pc = "get"
    /\ \/ /\ notifications.retry.keys = {}
          /\ ~due
          /\ notifications' = [notifications EXCEPT !.retry.pc = "sleep"]
       \/ \E n \in notifications.retry.keys :
             LET record == notifications.failed[n]
             IN  notifications' = [notifications EXCEPT
                     !.retry.keys = @ \ {n},
                     !.retry.key = IF due /\ MayRetry(record.attempts) THEN n ELSE 0,
                     !.retry.attempts =
                         IF due /\ MayRetry(record.attempts)
                         THEN record.attempts + 1 ELSE 0,
                     !.retry.pc = IF due /\ MayRetry(record.attempts)
                                  THEN "set" ELSE "get"]
    /\ OnlyNotifications

\* lines 243-250: the marked record is saved under the failed key and
\* send_notification is called.
RetrySet ==
    /\ notifications.retry.pc = "set"
    /\ notifications' = [notifications EXCEPT
           !.failed[notifications.retry.key] =
               [status |-> "retrying", attempts |-> notifications.retry.attempts],
           !.sends[notifications.retry.key] = @ + 1,
           !.retry.pc = "send"]
    /\ OnlyNotifications

\* send_notification called by the retry loop (line 250) is over
RetrySendDone(ok) ==
    /\ notifications.retry.pc = "send"
    /\ notifications' =
           [Sent(notifications.retry.key, notifications.retry.attempts, ok) EXCEPT
               !.retry.key = 0, !.retry.attempts = 0, !.retry.pc = "get"]
    /\ OnlyNotifications

\* asyncio.sleep(30) is over (line 255)
RetrySleep ==
    /\ notifications.retry.pc = "sleep"
    /\ notifications' = [notifications EXCEPT !.retry.pc = "scan"]
    /\ OnlyNotifications

NextNotifications ==
    \/ \E e \in EventTasks, critical \in BOOLEAN : process_event(e, critical)
    \/ \E e \in EventTasks : RateLimitGet(e)
    \/ \E e \in EventTasks : RateLimitSet(e)
    \/ \E e \in EventTasks : RateLimitIncr(e)
    \/ \E e \in EventTasks : StoreNotification(e)
    \/ \E e \in EventTasks, ok \in BOOLEAN : SendDone(e, ok)
    \/ RetryScan
    \/ \E due \in BOOLEAN : RetryGet(due)
    \/ RetrySet
    \/ \E ok \in BOOLEAN : RetrySendDone(ok)
    \/ RetrySleep

SpecNotifications == Init /\ [][NextNotifications]_vars

\* SpecResend: the events are processed one at a time, as by event_listener
\* (lines 192-197), beside the retry loop.
NextResend ==
    \/ \E critical \in BOOLEAN : process_event("e1", critical)
    \/ RateLimitGet("e1")
    \/ RateLimitSet("e1")
    \/ RateLimitIncr("e1")
    \/ StoreNotification("e1")
    \/ \E ok \in BOOLEAN : SendDone("e1", ok)
    \/ RetryScan
    \/ \E due \in BOOLEAN : RetryGet(due)
    \/ RetrySet
    \/ \E ok \in BOOLEAN : RetrySendDone(ok)
    \/ RetrySleep

SpecResend == Init /\ [][NextResend]_vars

(***************************************************************************)
(* The stage machine of the specification, against which the histories    *)
(* written by the handlers are judged.                                     *)
(***************************************************************************)
Terminal == {COMPLETE, FAILED, CANCELED}

NonTerminal == JobStatus \ Terminal

\* b is the immediate successor of a in the pipeline order
Successor(a, b) ==
    \E i \in 1..(Len(StageOrder) - 1) : StageOrder[i] = a /\ StageOrder[i + 1] = b

\* forward step, side exit from a non-terminal stage, cancel of a failed job,
\* or a retry out of failed/canceled into a non-terminal stage
LegalStep(a, b) ==
    \/ Successor(a, b)
    \/ a \in NonTerminal /\ b \in {FAILED, CANCELED}
    \/ a = FAILED /\ b = CANCELED
    \/ a \in {FAILED, CANCELED} /\ b \in NonTerminal

\* The stage of the last entry of the history h that is neither failed nor
\* canceled; submitted if there is none.
LastGoodStage(h) ==
    LET good == {i \in 1..Len(h) : h[i].status \notin {FAILED, CANCELED}}
    IN  IF good = {} THEN SUBMITTED
        ELSE h[CHOOSE i \in good : \A k \in good : k <= i].status

\* A step that leaves the committed tables and the event channel alone
NothingWritten == UNCHANGED <<jobs, job_history, job_events>>

(***************************************************************************)
(* C1.  In every reachable state, every job row's stage is the stage of    *)
(* that job's history entry with the greatest sequence number.             *)
(***************************************************************************)
C1_StageIsLastHistoryStage ==
    \A j \in DOMAIN jobs :
        /\ RowsOf(j) # {}
        /\ \A h \in RowsOf(j) :
              (\A g \in RowsOf(j) : g.id <= h.id) => h.status = jobs[j].status

\* Two mutations of one job overlapped: the one that read the clock first
\* wrote its history entry second.
C1_Witness ==
    \E j \in DOMAIN jobs : \E g, h \in RowsOf(j) :
        /\ g.id < h.id
        /\ g.timestamp > h.timestamp
        /\ jobs[j].status = h.status
        /\ g.status # h.status

(***************************************************************************)
(* C2.  Every pair of consecutive history entries of a job is a legal      *)
(* step of the stage machine (a request for an illegal target would be     *)
(* rejected and write nothing).                                            *)
(***************************************************************************)
C2_HistoryStepsLegal ==
    \A j \in DOMAIN jobs :
        LET h == HistoryOf(j)
        IN  \A i \in 1..(Len(h) - 1) : LegalStep(h[i].status, h[i + 1].status)

(***************************************************************************)
(* C3.  Of the handlers that read one job in the same stage s and ask for  *)
(* its successor stage s', at most one commits the move (the others would  *)
(* be refused as contended).  A slot at u_publish has committed and        *)
(* answered 200.                                                           *)
(***************************************************************************)
C3_OneClaimWins ==
    \A v, w \in Workers :
        (/\ v # w
         /\ req[v].op = "update" /\ req[w].op = "update"
         /\ req[v].job_uuid = req[w].job_uuid
         /\ req[v].status = req[w].status
         /\ req[v].current_status = req[w].current_status
         /\ Successor(req[v].current_status, req[v].status)
         /\ req[v].pc = "u_publish")
        => req[w].pc # "u_publish"

(***************************************************************************)
(* C4.  A transition request never changes the row of a job that is in a   *)
(* terminal stage and appends no history to it.                            *)
(***************************************************************************)
C4_TerminalIsFinal ==
    [][\A w \in Workers :
          (UpdateCommit(w) /\ jobs[req[w].job_uuid].status \in Terminal)
          => /\ jobs'[req[w].job_uuid] = jobs[req[w].job_uuid]
             /\ job_history' = job_history]_vars

(***************************************************************************)
(* C5.  A transition request whose target is the job's current stage       *)
(* appends no history entry and publishes no event.                        *)
(***************************************************************************)
C5_SameStageIsNoOp ==
    [][\A w \in Workers :
          /\ (UpdateCommit(w) /\ jobs[req[w].job_uuid].status = req[w].status)
             => job_history' = job_history
          /\ (\E ok \in BOOLEAN : UpdatePublish(w, ok))
                /\ req[w].current_status = req[w].status
             => job_events' = job_events]_vars

(***************************************************************************)
(* C6.  While the pause flag is on, a create and a transition to a         *)
(* non-terminal stage are answered 503 at once and write nothing; a cancel *)
(* and a transition to failed are let through, and neither is ever         *)
(* answered 503.                                                           *)
(***************************************************************************)
C6_PausedAdmission ==
    /\ [](reply.code = 503 =>
            /\ reply.op \in {"create", "update", "retry"}
            /\ reply.saw_paused
            /\ reply.op = "update" => reply.status # FAILED)
    /\ [][(pipeline_paused /\ budget' < budget) =>
          \A w \in Workers, j \in JobIds :
            /\ CreateBegin(w, j, NoStamp)
               => /\ reply' = [op |-> "create", job_uuid |-> j, status |-> SUBMITTED,
                               code |-> 503, saw_paused |-> TRUE]
                  /\ req' = req
                  /\ NothingWritten
            /\ \A s \in NonTerminal :
                 UpdateBegin(w, j, s, EmptyBag, NULL)
                 => /\ reply' = [op |-> "update", job_uuid |-> j, status |-> s,
                                 code |-> 503, saw_paused |-> TRUE]
                    /\ req' = req
                    /\ NothingWritten
            /\ CancelBegin(w, j) => req'[w].pc = "x_select"
            /\ UpdateBegin(w, j, FAILED, EmptyBag, NULL)
               => req'[w].pc = "u_select"]_vars

\* A cancel that began while the flag was on has canceled the job.
C6_Witness ==
    /\ pipeline_paused
    /\ reply.op = "cancel" /\ reply.code = 200 /\ reply.saw_paused
    /\ reply.job_uuid \in DOMAIN jobs
    /\ jobs[reply.job_uuid].status = CANCELED

(***************************************************************************)
(* C7.  As claimed: no transition to a terminal stage (failed, canceled,   *)
(* complete) is answered 503.                                              *)
(***************************************************************************)
C7_TerminalTargetsPassPause ==
    (reply.op = "update" /\ reply.status \in Terminal) => reply.code # 503

(***************************************************************************)
(* C7, amended.  A transition to failed or to canceled is never answered   *)
(* 503; a transition to complete that finds the flag on is answered 503.   *)
(***************************************************************************)
C7_OnlyFailedAndCanceledPassPause ==
    /\ (reply.op = "update" /\ reply.status \in {FAILED, CANCELED}) => reply.code # 503
    /\ (reply.op = "update" /\ reply.status = COMPLETE /\ reply.saw_paused)
       => reply.code = 503

\* A transition to failed that began while the flag was on was carried out.
C7_Witness ==
    /\ pipeline_paused
    /\ reply.op = "update" /\ reply.status = FAILED
    /\ reply.saw_paused /\ reply.code = 200
    /\ jobs[reply.job_uuid].status = FAILED

C9_RetryRewindsToLastGood ==
    [][\A w \in Workers :
          RetryHistory(w) => req'[w].status = LastGoodStage(HistoryOf(req[w].job_uuid))]_vars

(***************************************************************************)
(* C10.  The commit of a retry leaves the job's bag as it was, sets its    *)
(* error to NULL, appends exactly one history entry, which carries the     *)
(* stage the job re-enters and the bag, and changes no other job.          *)
(***************************************************************************)
C10_RetryFrame ==
    [][\A w \in Workers :
          RetryCommit(w) =>
             LET j == req[w].job_uuid
             IN  /\ DOMAIN jobs' = DOMAIN jobs
                 /\ jobs'[j].metadata = jobs[j].metadata
                 /\ jobs'[j].error = NULL
                 /\ jobs'[j].status = req[w].status
                 /\ \A k \in DOMAIN jobs \ {j} : jobs'[k] = jobs[k]
                 /\ job_history \subseteq job_history'
                 /\ \E h \in job_history' :
                       /\ job_history' \ job_history = {h}
                       /\ h.job_uuid = j
                       /\ h.status = jobs'[j].status
                       /\ h.metadata = jobs[j].metadata]_vars

\* A job that failed with an error and a bag has been retried, beside
\* another job.
C10_Witness ==
    /\ reply.op = "retry" /\ reply.code = 200
    /\ reply.job_uuid \in DOMAIN jobs
    /\ jobs[reply.job_uuid].metadata # EmptyBag
    /\ jobs[reply.job_uuid].error = NULL
    /\ jobs[reply.job_uuid].status = SUBMITTED
    /\ \E h \in RowsOf(reply.job_uuid) : h.status = FAILED /\ h.error # NULL
    /\ DOMAIN jobs = JobIds

(***************************************************************************)
(* C11.  A cancel that reads its job as canceled is answered 200 with      *)
(* stage canceled and leaves the job's history as it is.                   *)
(***************************************************************************)
C11_CancelIsIdempotent ==
    [][\A w \in Workers :
          (/\ CancelSelect(w)
           /\ req[w].job_uuid \in DOMAIN jobs
           /\ jobs[req[w].job_uuid].status = CANCELED)
          => /\ reply' = [op |-> "cancel", job_uuid |-> req[w].job_uuid,
                          status |-> CANCELED, code |-> 200,
                          saw_paused |-> req[w].saw_paused]
             /\ job_history' = job_history]_vars

(***************************************************************************)
(* C12.  A cancel is never turned away by the pause flag; one that reads   *)
(* its job in a non-terminal stage or in failed goes on to its write, and  *)
(* its commit leaves the job canceled and appends exactly one history      *)
(* entry, of stage canceled, to that job.                                  *)
(***************************************************************************)
C12_CancelFromLiveOrFailed ==
    [][\A w \in Workers :
          /\ (\A j \in JobIds : CancelBegin(w, j) => req'[w].pc = "x_select")
          /\ (/\ CancelSelect(w)
              /\ req[w].job_uuid \in DOMAIN jobs
              /\ jobs[req[w].job_uuid].status \in NonTerminal \cup {FAILED})
             => /\ req'[w].pc = "x_write"
                /\ reply' = reply
          /\ CancelCommit(w)
             => LET j == req[w].job_uuid
                IN  /\ req[w].current_status \in NonTerminal \cup {FAILED}
                    /\ jobs'[j].status = CANCELED
                    /\ reply'.code = 200
                    /\ job_history \subseteq job_history'
                    /\ \E h \in job_history' :
                          /\ job_history' \ job_history = {h}
                          /\ h.job_uuid = j
                          /\ h.status = CANCELED]_vars

\* A failed job has been canceled: its last two history entries are failed
\* and canceled.
C12_Witness ==
    /\ reply.op = "cancel" /\ reply.code = 200
    /\ reply.job_uuid \in DOMAIN jobs
    /\ jobs[reply.job_uuid].status = CANCELED
    /\ LET h == HistoryOf(reply.job_uuid)
       IN  /\ Len(h) >= 3
           /\ h[Len(h) - 1].status = FAILED
           /\ h[Len(h)].status = CANCELED

(***************************************************************************)
(* C13.  No two handlers are at once between their read of the same job's  *)
(* row and the end of their transaction: the second would wait for the     *)
(* per-job lock before it reads.                                           *)
(***************************************************************************)
HasReadRow ==
    {"u_write", "u_commit", "r_history", "r_write", "r_publish", "r_commit",
     "x_write", "x_publish", "x_commit"}

C13_ReadUnderJobLock ==
    \A v, w \in Workers :
        (/\ v # w
         /\ req[v].job_uuid = req[w].job_uuid
         /\ req[v].pc \in HasReadRow)
        => req[w].pc \notin HasReadRow

(***************************************************************************)
(* C14.  Every event on the channel tells of a committed history entry of  *)
(* its job and stage, and a publish that fails leaves its handler on the   *)
(* way to its commit: the request is not answered 500.                     *)
(***************************************************************************)
C14_PublishAfterCommit ==
    /\ [](\A i \in DOMAIN job_events :
             \E h \in job_history :
                /\ h.job_uuid = job_events[i].job_uuid
                /\ h.status = job_events[i].status)
    /\ [][\A w \in Workers :
             /\ CreatePublish(w, FALSE) => req'[w].pc = "c_commit"
             /\ RetryPublish(w, FALSE) => req'[w].pc = "r_commit"
             /\ CancelPublish(w, FALSE) => req'[w].pc = "x_commit"]_vars

(***************************************************************************)
(* C15.  When no handler is running, the stages of the events published    *)
(* for a job, in publication order, are a subsequence of the stages of its *)
(* history in commit order (events may be missing, never out of order).    *)
(***************************************************************************)
RECURSIVE IsSubseq(_, _)
IsSubseq(s, t) ==
    IF s = << >> THEN TRUE
    ELSE IF t = << >> THEN FALSE
    ELSE IF Head(s) = Head(t) THEN IsSubseq(Tail(s), Tail(t))
    ELSE IsSubseq(s, Tail(t))

StagesOf(s) == [i \in DOMAIN s |-> s[i].status]

EventsOf(j) == SelectSeq(job_events, LAMBDA e : e.job_uuid = j)

C15_EventsInCommitOrder ==
    (\A w \in Workers : req[w] = Idle)
    => \A j \in DOMAIN jobs :
          IsSubseq(StagesOf(EventsOf(j)), StagesOf(HistoryOf(j)))

(***************************************************************************)
(* C16.  No step lowers the updated_at of a job.                           *)
(***************************************************************************)
C16_UpdatedAtNeverDecreases ==
    [][\A j \in DOMAIN jobs : jobs'[j].updated_at >= jobs[j].updated_at]_vars

(***************************************************************************)
(* C17.  No two history entries carry the same sequence number, and every  *)
(* entry that a commit adds to a job's history has a greater sequence      *)
(* number than all entries the job already has: the order by id is the     *)
(* order of the commits.                                                   *)
(***************************************************************************)
C17_HistoryIdsInCommitOrder ==
    /\ [](\A g, h \in job_history : g.id = h.id => g = h)
    /\ [][\A h \in job_history' \ job_history :
             \A g \in RowsOf(h.job_uuid) : g.id < h.id]_vars

\* A transition that read its job before another mutation of it had
\* committed has itself committed after that mutation.
C17_Witness ==
    \E w \in Workers :
        /\ req[w].pc = "u_publish"
        /\ req[w].current_status = SUBMITTED
        /\ \E g, h \in RowsOf(req[w].job_uuid) :
              /\ g.status # SUBMITTED
              /\ g.id < h.id
              /\ h.id = req[w].hist_id

(***************************************************************************)
(* C18.  A create that finds its id in the jobs table is answered 409 and  *)
(* leaves the tables, the sequence and the event channel as they are; one  *)
(* that finds the id only at its INSERT is refused as well, and no create  *)
(* commits over an existing row.                                           *)
(***************************************************************************)
C18_CreateOfExistingId ==
    [][\A w \in Workers :
          /\ (CreateSelect(w) /\ req[w].job_uuid \in DOMAIN jobs)
             => /\ reply' = [op |-> "create", job_uuid |-> req[w].job_uuid,
                             status |-> SUBMITTED, code |-> 409,
                             saw_paused |-> FALSE]
                /\ req'[w] = Idle
                /\ UNCHANGED <<jobs, job_history, history_seq, job_events>>
          /\ (CreateInsert(w) /\ req[w].job_uuid \in DOMAIN jobs)
             => /\ reply'.code = 500
                /\ UNCHANGED <<jobs, job_history, history_seq, job_events>>
          /\ CreateCommit(w) => req[w].job_uuid \notin DOMAIN jobs]_vars

\* A job that had moved on to failed was submitted again and the create was
\* refused: the job is still failed, with its two history entries.
C18_Witness ==
    /\ reply.op = "create" /\ reply.code = 409
    /\ reply.job_uuid \in DOMAIN jobs
    /\ jobs[reply.job_uuid].status = FAILED
    /\ Cardinality(RowsOf(reply.job_uuid)) = 2
    /\ \A w \in Workers : req[w] = Idle

(***************************************************************************)
(* C19.  The commit of a create, of a retry, of a cancel and of a          *)
(* transition to another stage than the job's current one appends exactly  *)
(* one history entry, to that job and together with the row change; the    *)
(* commit of a transition to the job's current stage appends none, and so  *)
(* does every step that answers with an error.                             *)
(***************************************************************************)
AppendsOne(j) ==
    /\ job_history \subseteq job_history'
    /\ \E h \in job_history' :
          /\ job_history' \ job_history = {h}
          /\ h.job_uuid = j
          /\ h.status = jobs'[j].status

C19_OneEntryPerMutation ==
    [][\A w \in Workers :
          /\ UpdateCommit(w)
             => IF jobs[req[w].job_uuid].status = req[w].status
                THEN job_history' = job_history
                ELSE AppendsOne(req[w].job_uuid)
          /\ (CreateCommit(w) \/ RetryCommit(w) \/ CancelCommit(w))
             => AppendsOne(req[w].job_uuid)
          /\ (reply' # reply /\ reply'.code # 200)
             => job_history' = job_history /\ jobs' = jobs]_vars

(***************************************************************************)
(* C20.  The bag of a new job is empty; the commit of a transition with    *)
(* patch p leaves every key that p writes at p's value and every other key *)
(* as it was; nothing else changes a bag.  The bag read back after create  *)
(* and transitions with p1..pn is therefore the left fold of the patches.  *)
(***************************************************************************)
C20_BagIsLeftFold ==
    [][/\ \A w \in Workers :
             /\ CreateCommit(w) => jobs'[req[w].job_uuid].metadata = EmptyBag
             /\ UpdateCommit(w)
                => \A k \in Keys :
                      jobs'[req[w].job_uuid].metadata[k] =
                         IF req[w].patch[k] # 0
                         THEN req[w].patch[k]
                         ELSE jobs[req[w].job_uuid].metadata[k]
       /\ \A j \in DOMAIN jobs :
             jobs'[j].metadata # jobs[j].metadata
             => \E w \in Workers : UpdateCommit(w) /\ req[w].job_uuid = j]_vars

\* Three transitions have written a, then b, then a again: the bag went
\* through a=1, then a=1 b=1, and is now a=2 b=1.
C20_Witness ==
    /\ reply.op = "update" /\ reply.code = 200
    /\ reply.job_uuid \in DOMAIN jobs
    /\ jobs[reply.job_uuid].metadata = [a |-> 2, b |-> 1]
    /\ \E g, h \in RowsOf(reply.job_uuid) :
          /\ g.id < h.id
          /\ g.metadata = [a |-> 1, b |-> 0]
          /\ h.metadata = [a |-> 1, b |-> 1]

(***************************************************************************)
(* C21.  The statistics that get_queue_stats is about to return, when no   *)
(* other request ran meanwhile: total_jobs is the number of jobs, the      *)
(* count of every stage is the number of jobs in it, active_jobs is the    *)
(* number of jobs in a non-terminal stage, completed_jobs the number of    *)
(* complete and failed_jobs the number of failed jobs.                     *)
(***************************************************************************)
JobsIn(S) == Cardinality({j \in DOMAIN jobs : jobs[j].status \in S})

C21_StatsCountTheJobs ==
    \A w \in Workers :
        req[w].pc = "s_return"
        => LET stats == QueueStats(req[w].fetched)
           IN  /\ stats.total_jobs = Cardinality(DOMAIN jobs)
               /\ DOMAIN stats.jobs_by_status = DOMAIN StatusList
               /\ \A i \in DOMAIN StatusList :
                     stats.jobs_by_status[i] = JobsIn({StatusList[i]})
               /\ stats.active_jobs = JobsIn(NonTerminal)
               /\ stats.completed_jobs = JobsIn({COMPLETE})
               /\ stats.failed_jobs = JobsIn({FAILED})

\* Statistics are about to be returned for a job that was moved to
\* complete: it is counted as completed and not as active.
C21_Witness ==
    \E w \in Workers :
        /\ req[w].pc = "s_return"
        /\ JobsIn({COMPLETE}) = 1
        /\ QueueStats(req[w].fetched).completed_jobs = 1
        /\ QueueStats(req[w].fetched).active_jobs = 0
        /\ QueueStats(req[w].fetched).total_jobs = 1

(***************************************************************************)
(* C22.  The flag is off at start-up.  pause_queue turns it on and         *)
(* resume_queue turns it off, and neither changes a job row, a history     *)
(* entry, the job events or a running handler.  Whenever the flag is off,  *)
(* after a resume in particular, a create and a transition to any stage    *)
(* are taken on and not answered 503.                                      *)
(***************************************************************************)
C22_PauseResumeFrame ==
    /\ ~pipeline_paused
    /\ [][budget' < budget =>
          /\ \A ok \in BOOLEAN :
                /\ pause_queue(ok) => pipeline_paused'
                /\ resume_queue(ok) => ~pipeline_paused'
                /\ (pause_queue(ok) \/ resume_queue(ok))
                   => UNCHANGED <<jobs, job_history, history_seq, rowlock,
                                  job_events, req>>
          /\ ~pipeline_paused
             => \A w \in Workers, j \in JobIds :
                   /\ CreateBegin(w, j, NoStamp) => req'[w].pc = "c_select"
                   /\ \A s \in Targets :
                         UpdateBegin(w, j, s, EmptyBag, NULL)
                         => req'[w].pc = "u_select"]_vars

\* The pipeline was paused and resumed after a job had been submitted: the
\* flag is off and the job is as it was created.
C22_Witness ==
    /\ ~pipeline_paused
    /\ reply.op = "pipeline_resumed" /\ reply.saw_paused /\ reply.code = 200
    /\ system_events = <<"pipeline_paused", "pipeline_resumed">>
    /\ \E j \in DOMAIN jobs :
          /\ jobs[j].status = SUBMITTED
          /\ Cardinality(RowsOf(j)) = 1

(***************************************************************************)
(* C23.  The commit of a transition to a stage other than failed, and the  *)
(* commit of a retry, leave the job's error NULL.                          *)
(***************************************************************************)
C23_ErrorClearedOnAdvance ==
    [][\A w \in Workers :
          /\ (UpdateCommit(w) /\ req[w].status # FAILED)
             => jobs'[req[w].job_uuid].error = NULL
          /\ RetryCommit(w) => jobs'[req[w].job_uuid].error = NULL]_vars

(***************************************************************************)
(* C24.  A transition to failed that carries no error string is turned     *)
(* away at its first step with 400 and writes nothing, and every job in    *)
(* stage failed has an error.                                              *)
(***************************************************************************)
C24_FailedCarriesError ==
    /\ [](\A j \in DOMAIN jobs : jobs[j].status = FAILED => jobs[j].error # NULL)
    /\ [][\A w \in Workers, j \in JobIds :
             UpdateBegin(w, j, FAILED, EmptyBag, NULL)
             => /\ reply'.code = 400
                /\ req' = req
                /\ NothingWritten]_vars

(***************************************************************************)
(* C25.  As claimed: the records that list_jobs fetches for an owner u (or none), a    *)
(* set of stages (the status values of the query string; none means any    *)
(* stage), a limit and an offset are jobs of that owner in one of those    *)
(* stages, each at most once and newest first; they are all such jobs      *)
(* but the first offset ones, up to limit of them; no step of list_jobs    *)
(* changes the store or the channels.                                      *)
(***************************************************************************)
StagesAsked(query) == {query[i] : i \in DOMAIN query}

Wanted(u, query) ==
    {j \in DOMAIN jobs : /\ (u # NULL => jobs[j].user_id = u)
                         /\ (query # << >> => jobs[j].status \in StagesAsked(query))}

IsPageOf(r, M, limit, offset) ==
    LET left == IF Cardinality(M) > offset THEN Cardinality(M) - offset ELSE 0
        got == {r[i].job_uuid : i \in DOMAIN r}
    IN  /\ \A i \in DOMAIN r : r[i].job_uuid \in M /\ r[i] = RecordOf(r[i].job_uuid)
        /\ \A i, k \in DOMAIN r : i < k => /\ r[i].job_uuid # r[k].job_uuid
                                            /\ r[i].created_at >= r[k].created_at
        /\ Len(r) = IF left < limit THEN left ELSE limit
        /\ r # << >> =>
              /\ Cardinality({j \in M \ got : jobs[j].created_at > r[1].created_at})
                    <= offset
              /\ Cardinality({j \in M \ got : jobs[j].created_at >= r[1].created_at})
                    >= offset

WantedInOneStage(u, query) ==
    {j \in DOMAIN jobs : /\ (u # NULL => jobs[j].user_id = u)
                         /\ (query # << >> => jobs[j].status = query[Len(query)])}

C26_PollMatchesEngine ==
    [][\A w \in Workers :
          (ListFetch(w) /\ req[w].engine # NULL)
          => LET r == req'[w].fetched
             IN  /\ Len(r) <= req[w].limit
                 /\ \A i \in DOMAIN r : /\ r[i].status = req[w].status
                                        /\ r[i].engine = req[w].engine
                 /\ \/ \A i, k \in DOMAIN r : i < k => r[i].created_at <= r[k].created_at
                    \/ \A i, k \in DOMAIN r : i < k => r[i].created_at >= r[k].created_at]_vars

(***************************************************************************)
(* C27.  A get_job, update_job, retry_job or cancel_job that reads the     *)
(* jobs table and finds no row of its id is answered 404 and ends, and the *)
(* step changes no table, draws no sequence number and publishes nothing;  *)
(* 404 is the answer to nothing else.                                      *)
(***************************************************************************)
C27_UnknownIdIsNotFound ==
    /\ [](reply.code = 404 => reply.op \in {"get", "update", "retry", "cancel"})
    /\ [][\A w \in Workers :
             (/\ GetSelect(w) \/ UpdateSelect(w) \/ RetrySelect(w) \/ CancelSelect(w)
              /\ req[w].job_uuid \notin DOMAIN jobs)
             => /\ reply'.code = 404
                /\ reply'.op = req[w].op
                /\ reply'.job_uuid = req[w].job_uuid
                /\ req'[w] = Idle
                /\ UNCHANGED <<jobs, job_history, history_seq, job_events,
                               system_events>>]_vars

\* A get of an id that was never submitted was answered 404 while another
\* job exists.
C27_Witness ==
    /\ reply.op = "get" /\ reply.code = 404
    /\ reply.job_uuid \notin DOMAIN jobs
    /\ DOMAIN jobs # {}
    /\ \A h \in job_history : h.job_uuid # reply.job_uuid
    /\ \A i \in DOMAIN job_events : job_events[i].job_uuid # reply.job_uuid

(***************************************************************************)
(* C28.  A key that a committed transition of a job has written is in the  *)
(* job's bag from then on: every key present in the bag of a history entry *)
(* of the job is present in the bag of the job's row.                      *)
(***************************************************************************)
C28_NoBagKeyLost ==
    \A j \in DOMAIN jobs : \A h \in RowsOf(j) : \A k \in Keys :
        h.metadata[k] # 0 => jobs[j].metadata[k] # 0

(***************************************************************************)
(* C29.  Whenever a task of the stage worker has made the output directory *)
(* of its job and started (or finished) the separation, the registry had   *)
(* answered 200 to that task's update of the job to "processing".          *)
(***************************************************************************)
C29_SideEffectsOnlyAfterClaim ==
    \A t \in TaskIds :
        demucs.tasks[t].pc \in {"separate", "report_completed"}
            => demucs.tasks[t].claim = 200

(***************************************************************************)
(* C30.  While the pause flag is on, no step commits a new job row and no  *)
(* step commits a change of a job row that leaves the job in a             *)
(* non-terminal stage, whenever the handler that commits began.            *)
(***************************************************************************)
C30_PauseIsBarrier ==
    [][pipeline_paused =>
          \A j \in DOMAIN jobs' :
              /\ j \in DOMAIN jobs
              /\ jobs'[j] # jobs[j] => jobs'[j].status \notin NonTerminal]_vars

(***************************************************************************)
(* C31.  A create_job that ends without a row of its own, on an id whose   *)
(* row another create has committed, is answered 409; and no id ever has   *)
(* more than one job_created event.                                        *)
(***************************************************************************)
C31_ConcurrentCreateConflicts ==
    /\ [](\A j \in JobIds :
             Cardinality({i \in DOMAIN job_events :
                             /\ job_events[i].event = "job_created"
                             /\ job_events[i].job_uuid = j}) <= 1)
    /\ [][\A w \in Workers :
             (/\ req[w].op = "create"
              /\ req'[w] = Idle
              /\ req[w].job_uuid \in DOMAIN jobs
              /\ jobs' = jobs)
             => reply'.code = 409]_vars

(***************************************************************************)
(* C32.  The statistics that get_queue_stats is about to return add up:    *)
(* total_jobs is the sum of the counts of all stages, and is the sum of    *)
(* active_jobs, completed_jobs, failed_jobs and the count of canceled.     *)
(***************************************************************************)
C32_StatsAddUp ==
    \A w \in Workers :
        req[w].pc = "s_return"
        => LET stats == QueueStats(req[w].fetched)
           IN  /\ stats.total_jobs
                    = SumOver(stats.jobs_by_status, DOMAIN stats.jobs_by_status)
               /\ stats.total_jobs
                    = stats.active_jobs + stats.completed_jobs + stats.failed_jobs
                      + CountOf(stats.jobs_by_status, CANCELED)

(***************************************************************************)
(* C33.  A task of the stage worker whose separation ended with an error   *)
(* has reported the status "failed" last, at the latest when it ends.      *)
(***************************************************************************)
C33_FailedProcessingReportsFailure ==
    \A t \in TaskIds :
        demucs.tasks[t].result = "error" => demucs.tasks[t].reported = "failed"

(***************************************************************************)
(* C34.  No two tasks of the worker that have started and not yet ended    *)
(* work on the same job id.                                                *)
(***************************************************************************)
C34_OneTaskPerJob ==
    \A t1, t2 \in TaskIds :
        (/\ t1 # t2
         /\ demucs.tasks[t1].pc \notin {"done", "spawned"}
         /\ demucs.tasks[t2].pc \notin {"done", "spawned"})
        => demucs.tasks[t1].job_uuid # demucs.tasks[t2].job_uuid

(***************************************************************************)
(* C35.  A watched file that is marked stable has a stability count of at  *)
(* least stability_checks; the count of a watched file grows only by one,  *)
(* and only in a check that found the file's content as it was stored; a   *)
(* check that found it changed stores the new content, sets the count to 0 *)
(* and takes the mark away; and the watcher starts the submission only of  *)
(* a file whose listed state is marked stable.                             *)
(***************************************************************************)
C35_SubmitsOnlyStableFiles ==
    /\ [](\A p \in DOMAIN watcher.files_being_watched :
             watcher.files_being_watched[p].is_stable
                 => watcher.files_being_watched[p].stability_count >= stability_checks)
    /\ [][\A p \in DOMAIN watcher.files_being_watched
                   \cap DOMAIN watcher'.files_being_watched :
             LET old == watcher.files_being_watched[p]
                 new == watcher'.files_being_watched[p]
             IN  new # old
                 => /\ watcher.pc = "check"
                    /\ IF input_dir[p] = old.version
                       THEN /\ new.stability_count = old.stability_count + 1
                            /\ new.version = old.version
                       ELSE new = FileState(input_dir[p])]_vars
    /\ [][watcher.pc = "process" /\ watcher'.pc = "submit"
             => /\ watcher.todo[watcher'.path].is_stable
                /\ watcher.todo[watcher'.path].stability_count >= stability_checks]_vars

\* A submission is in flight for a file that was rewritten after it had
\* appeared and was then found unchanged stability_checks times.
C35_Witness ==
    /\ watcher.pc = "submit"
    /\ watcher.path \in DOMAIN watcher.todo
    /\ watcher.todo[watcher.path].is_stable
    /\ watcher.todo[watcher.path].version = MaxVersion
    /\ watcher.todo[watcher.path].stability_count = stability_checks

(***************************************************************************)
(* C36.  Since the last reset of the watcher (or its start) no path was    *)
(* answered 200 by the queue more than once, and every path that was is in *)
(* processed_files and is not watched.                                     *)
(***************************************************************************)
C36_SubmittedAtMostOnce ==
    \A p \in Paths :
        /\ watcher.submitted[p] <= 1
        /\ watcher.submitted[p] = 1
              => /\ p \in watcher.processed_files
                 /\ p \notin DOMAIN watcher.files_being_watched

\* Both files were submitted, one of them after the queue had refused a
\* submission, and the loop is about to scan the directory again.
C36_Witness ==
    /\ \A p \in Paths : watcher.submitted[p] = 1
    /\ watcher.failures > 0
    /\ watcher.pc = "scan"

(***************************************************************************)
(* C37.  While the watch loop keeps running, every file that is in the     *)
(* input directory is at some later time answered 200 by the queue, once   *)
(* the file is no longer rewritten and the queue no longer refuses.        *)
(***************************************************************************)
C37_StableFileIsSubmitted ==
    \A p \in Paths : (input_dir[p] # Absent) ~> (watcher.submitted[p] > 0)

\* The only file of the directory was submitted after the queue had refused
\* it MaxFailures times.
C37_Witness ==
    \E p \in Paths :
        /\ watcher.submitted[p] = 1
        /\ watcher.failures = MaxFailures
        /\ \A q \in Paths \ {p} : input_dir[q] = Absent

(***************************************************************************)
(* C38.  send_notification is called at most 1 + max_retries times for any *)
(* notification, and the attempts stored with a failed record never exceed *)
(* max_retries.                                                            *)
(***************************************************************************)
C38_SendsAreBounded ==
    \A n \in NotificationIds :
        /\ notifications.sends[n] <= 1 + max_retries
        /\ notifications.failed[n].attempts <= max_retries

\* A notification failed on its first send and on every retry: it was sent
\* 1 + max_retries times and the retry loop has passed it over since.
C38_Witness ==
    \E n \in NotificationIds :
        /\ notifications.sends[n] = 1 + max_retries
        /\ notifications.failed[n] = [status |-> "failed", attempts |-> max_retries]
        /\ notifications.retry.pc = "sleep"

(***************************************************************************)
(* C39.  No step of the retry loop calls send_notification for a           *)
(* notification whose record is stored as sent.                            *)
(***************************************************************************)
C39_SentIsNotRetried ==
    [][\A n \in NotificationIds :
          notifications.stored[n] = "sent"
              => notifications'.sends[n] = notifications.sends[n]]_vars

(***************************************************************************)
(* C40.  The number of events of the user that are not critical and that   *)
(* is_rate_limited has let through never exceeds rate_limit_per_user.      *)
(***************************************************************************)
C40_RateLimitHolds == notifications.passed <= rate_limit_per_user

====
